---- MODULE Spec2Model ----
(***************************************************************************)
(* Two independent utilities of the repository:                            *)
(*   rasa/core/jobs.py            the process-wide scheduler singleton     *)
(*   rasa/nlu/training_data/formats/dialogflow.py   the Dialogflow reader  *)
(* SchedSpec is the state machine of the scheduler accessor, ConvSpec the  *)
(* one of DialogflowReader.read applied to a bounded family of inputs.     *)
(***************************************************************************)
EXTENDS Integers, Sequences, FiniteSets, TLC

VARIABLES
    __scheduler,  \* jobs.py:8   the module global: None or an instance identity
    insts,        \* the AsyncIOScheduler objects constructed so far, by identity
    last,         \* observer: the last call, its caller's loop and its outcome
    returned,     \* observer: every handle scheduler() has returned so far
    epoch,        \* observer: the handles returned since the last kill_scheduler() call
    fformat,      \* dialogflow.py:31  kwargs["fformat"]
    fs,           \* the files read() can see: root, usersays and entries file
    io,           \* observer: the file accesses read() has made, in order
    result        \* what read() returned or raised; Pending before the call

schedVars == <<__scheduler, insts, last, returned, epoch>>
convVars == <<fformat, fs, io, result>>
vars == <<__scheduler, insts, last, returned, epoch, fformat, fs, io, result>>

\* jobs.py:8  the null reference; object identities are 1, 2, ...
None == 0

\* The placeholder of a field that does not apply.
NA == "-"

----------------------------------------------------------------------------
(* rasa/core/jobs.py *)

\* Bound: how many AsyncIOScheduler objects one behaviour may construct.
MaxInstances == 4

\* The event loops asyncio.get_event_loop() can answer with.
Loops == {"loopA", "loopB"}

\* What the library calls of scheduler() can do.  The constructor resolves the
\* local time zone and may raise UnknownTimeZoneError; start() may complete,
\* raise UnknownTimeZoneError (caught by line 25 all the same) or raise
\* another error, which scheduler() does not catch.
CtorOutcomes == {"ok", "UnknownTimeZoneError"}
StartOutcomes == {"ok", "UnknownTimeZoneError", "Error"}
FallbackStartOutcomes == {"ok", "Error"}

\* AsyncIOScheduler(event_loop=loop[, timezone=utc]): a new, stopped object.
NewScheduler(loop, tz) == [eventloop |-> loop, timezone |-> tz, state |-> "stopped"]

\* Line 20 answering "no scheduler" whatever the global holds.
NoScheduler_always == TRUE

\* jobs.py:20  `if not __scheduler`
NoScheduler == __scheduler = None

\* Line 38 without the comparison of the loops.
SameLoop_any(loop) == TRUE

\* jobs.py:38  `__scheduler._eventloop == asyncio.get_event_loop()`
SameLoop(loop) == insts[__scheduler].eventloop = loop

\* The objects that are started and not shut down.
Live == {i \in 1..Len(insts) : insts[i].state = "running"}

Started(s, i) == [s EXCEPT ![i].state = "running"]

\* scheduler.shutdown() on object i: it stops a running scheduler.
Stopped(s, i) == [s EXCEPT ![i].state = "stopped"]

\* The record of a call for the observers: the operation, the caller's event
\* loop, how the call ended, the object it returned (scheduler) or shut down
\* (kill_scheduler), and how many objects it constructed.
Call(op, loop, outcome, handle, made) ==
    [op |-> op, loop |-> loop, outcome |-> outcome, handle |-> handle, made |-> made]

Returns(loop, h, made) ==
    /\ last' = Call("scheduler", loop, "returned", h, made)
    /\ UNCHANGED convVars
    /\ returned' = returned \cup {h}
    /\ epoch' = epoch \cup {h}

Raises(loop, err, made) ==
    /\ last' = Call("scheduler", loop, err, None, made)
    /\ UNCHANGED <<returned, epoch, convVars>>

\* jobs.py:20-24  no scheduler yet and the constructor succeeds: the object is
\* stored first (line 22), then started (line 23); an error of start() other
\* than UnknownTimeZoneError leaves scheduler() with the object stored.
CreateLocal(loop, ctor, start1) ==
    /\ NoScheduler
    /\ ctor = "ok"
    /\ start1 \in {"ok", "Error"}
    /\ Len(insts) < MaxInstances
    /\ LET n == Len(insts) + 1
           made == Append(insts, NewScheduler(loop, "local"))
       IN /\ __scheduler' = n
          /\ IF start1 = "ok"
                THEN insts' = Started(made, n) /\ Returns(loop, n, 1)
                ELSE insts' = made /\ Raises(loop, "Error", 1)

\* jobs.py:20-37  UnknownTimeZoneError from line 22 or from line 23: warn,
\* build a second object with timezone=utc, store it and start it.
CreateUtc(loop, ctor, start1, start2) ==
    /\ NoScheduler
    /\ \/ ctor = "UnknownTimeZoneError"
       \/ ctor = "ok" /\ start1 = "UnknownTimeZoneError"
    /\ LET first == IF ctor = "ok"
                       THEN Append(insts, NewScheduler(loop, "local"))
                       ELSE insts
           n == Len(first) + 1
           made == Append(first, NewScheduler(loop, "utc"))
       IN /\ n <= MaxInstances
          /\ __scheduler' = n
          /\ IF start2 = "ok"
                THEN insts' = Started(made, n) /\ Returns(loop, n, n - Len(insts))
                ELSE insts' = made /\ Raises(loop, "Error", n - Len(insts))

\* jobs.py:38-39
ReturnExisting(loop) ==
    /\ ~NoScheduler
    /\ SameLoop(loop)
    /\ Returns(loop, __scheduler, 0)
    /\ UNCHANGED <<__scheduler, insts>>

\* jobs.py:40-48
RaiseInconsistentLoop(loop) ==
    /\ ~NoScheduler
    /\ ~SameLoop(loop)
    /\ Raises(loop, "RuntimeError", 0)
    /\ UNCHANGED <<__scheduler, insts>>

\* jobs.py:13-48  one call of the coroutine scheduler(); it has no await, so
\* the event loop runs it to its end without interleaving.
Scheduler(loop, ctor, start1, start2) ==
    \/ CreateLocal(loop, ctor, start1)
    \/ CreateUtc(loop, ctor, start1, start2)
    \/ ReturnExisting(loop)
    \/ RaiseInconsistentLoop(loop)

\* kill_scheduler() as it would be without line 60: the scheduler is shut
\* down and the global keeps the reference.
KillScheduler_keepsReference ==
    /\ ~NoScheduler
    /\ insts[__scheduler].state = "running"
    /\ insts' = Stopped(insts, __scheduler)
    /\ last' = Call("kill_scheduler", NA, "returned", __scheduler, 0)
    /\ epoch' = {}
    /\ UNCHANGED <<__scheduler, returned, convVars>>

\* kill_scheduler() as it would be without line 59: the global is cleared
\* and the scheduler keeps running.
KillScheduler_noShutdown ==
    /\ ~NoScheduler
    /\ __scheduler' = None
    /\ last' = Call("kill_scheduler", NA, "returned", __scheduler, 0)
    /\ epoch' = {}
    /\ UNCHANGED <<insts, returned, convVars>>

\* jobs.py:51-60  kill_scheduler().  BaseScheduler.shutdown() raises
\* SchedulerNotRunningError on a scheduler that is not running, and line 60
\* is then not reached.
KillScheduler ==
    /\ IF __scheduler = None
          THEN /\ last' = Call("kill_scheduler", NA, "returned", None, 0)
               /\ UNCHANGED <<__scheduler, insts>>
          ELSE IF insts[__scheduler].state = "running"
                  THEN /\ insts' = Stopped(insts, __scheduler)
                       /\ __scheduler' = None
                       /\ last' = Call("kill_scheduler", NA, "returned", __scheduler, 0)
                  ELSE /\ last' = Call("kill_scheduler", NA,
                                       "SchedulerNotRunningError", None, 0)
                       /\ UNCHANGED <<__scheduler, insts>>
    /\ epoch' = {}
    /\ UNCHANGED returned
    /\ UNCHANGED convVars

----------------------------------------------------------------------------
(* rasa/nlu/training_data/formats/dialogflow.py *)

\* Bounds: chunks over all example records of a usersays file, synonyms of
\* one entries record, records of an entries file.
MaxChunks == 3
MaxSynonyms == 2
MaxRecords == 2

\* dialogflow.py:17-22
DIALOGFLOW_PACKAGE == "dialogflow_package"
DIALOGFLOW_AGENT == "dialogflow_agent"
DIALOGFLOW_INTENT == "dialogflow_intent"
DIALOGFLOW_INTENT_EXAMPLES == "dialogflow_intent_examples"
DIALOGFLOW_ENTITIES == "dialogflow_entities"
DIALOGFLOW_ENTITY_ENTRIES == "dialogflow_entity_entries"

\* The values of kwargs["fformat"] tried.
Formats ==
    {DIALOGFLOW_PACKAGE, DIALOGFLOW_AGENT, DIALOGFLOW_INTENT,
     DIALOGFLOW_INTENT_EXAMPLES, DIALOGFLOW_ENTITIES, DIALOGFLOW_ENTITY_ENTRIES,
     "unsupported_value"}

\* A string is the sequence of its characters.
IGNORE == "@sys.ignore"
Texts == {<<"a">>, <<"b", "c">>}
Metas == {IGNORE, "@city"}
Aliases == {IGNORE, "city"}
Synonyms == {<<"N", "Y">>, <<"@", "c">>, <<"L", "@">>}
Names == {"cities"}

\* A JSON object is a function from its keys; an absent key is not in DOMAIN.
Absent == "<absent>"
Keys(text, meta, alias) ==
    {"text"} \cup (IF meta = Absent THEN {} ELSE {"meta"})
             \cup (IF alias = Absent THEN {} ELSE {"alias"})
MkChunk(text, meta, alias) ==
    [k \in Keys(text, meta, alias) |->
        CASE k = "text" -> text [] k = "meta" -> meta [] k = "alias" -> alias]
Chunks ==
    {MkChunk(t, m, a) : t \in Texts, m \in Metas \cup {Absent}, a \in Aliases \cup {Absent}}

\* The contents a usersays file can have: the chunks d in one example record
\* (k = Len(d) + 1) or split over two example records after the k-th chunk.
ExampleList(d, k) ==
    IF k > Len(d) THEN <<[data |-> d]>>
    ELSE <<[data |-> SubSeq(d, 1, k)], [data |-> SubSeq(d, k + 1, Len(d))]>>

\* The records an entries file can have: a value and, or not, a list of
\* synonyms.
EntryRecords ==
    {[value |-> "v"]}
    \cup UNION {{[value |-> "v", synonyms |-> y] : y \in [1..n -> Synonyms]} :
                   n \in 0..MaxSynonyms}

File(json) == [exists |-> TRUE, json |-> json]
Missing == [exists |-> FALSE, json |-> <<>>]

Pending == [kind |-> "pending"]
Raised(err) == [kind |-> err]

\* rasa.nlu.utils.build_entity(start, end, value, entity_type)
build_entity(start, end, value, entity_type) ==
    [start |-> start, end |-> end, value |-> value, entity |-> entity_type]

\* Message.build(text, intent, entities)
MessageBuild(text, intent, entities) ==
    [text |-> text, intent |-> intent, entities |-> entities]

\* TrainingData(training_examples, entity_synonyms, regex_features,
\* lookup_tables); an argument that is None or missing becomes empty.
TrainingData(training_examples, entity_synonyms, lookup_tables) ==
    [kind |-> "TrainingData",
     training_examples |-> training_examples,
     entity_synonyms |-> entity_synonyms,
     regex_features |-> <<>>,
     lookup_tables |-> IF lookup_tables.some THEN lookup_tables.value ELSE <<>>]

Some(v) == [some |-> TRUE, value |-> v]
Nothing == [some |-> FALSE, value |-> <<>>]

\* dialogflow.py:88  chunk.get("alias", chunk["meta"]): Python evaluates the
\* default chunk["meta"] before the call, so a chunk without "meta" raises
\* KeyError (Nothing here) whether or not it has "alias".
EntityType(chunk) ==
    IF "meta" \notin DOMAIN chunk THEN Nothing
    ELSE IF "alias" \in DOMAIN chunk THEN Some(chunk.alias) ELSE Some(chunk.meta)

\* Line 89 comparing the "meta" field instead of the resolved type.
IsIgnored_meta(chunk, entity_type) == chunk.meta = IGNORE

\* dialogflow.py:89  `entity_type != "@sys.ignore"` is false
IsIgnored(chunk, entity_type) == entity_type = IGNORE

\* dialogflow.py:86  start = current_offset
SpanStart(current_offset) == current_offset

\* dialogflow.py:78-93  _extract_entity: an entity, no entity, or KeyError.
ExtractEntity(chunk, current_offset) ==
    IF "meta" \in DOMAIN chunk \/ "alias" \in DOMAIN chunk
    THEN LET start == SpanStart(current_offset)
             text == chunk.text
             entity_type == EntityType(chunk)
         IN IF ~entity_type.some THEN Raised("KeyError")
            ELSE IF ~IsIgnored(chunk, entity_type.value)
                 THEN [kind |-> "entity",
                       entity |-> build_entity(start, start + Len(text), text,
                                               entity_type.value)]
                 ELSE [kind |-> "None"]
    ELSE [kind |-> "None"]

\* dialogflow.py:71-74  the loop of _join_text_chunks from chunk i on.
RECURSIVE JoinFrom(_, _, _, _)
JoinFrom(chunks, i, utterance, entities) ==
    IF i > Len(chunks)
    THEN [kind |-> "ok", text |-> utterance, entities |-> entities]
    ELSE LET e == ExtractEntity(chunks[i], Len(utterance))
         IN IF e.kind = "KeyError" THEN Raised("KeyError")
            ELSE JoinFrom(chunks, i + 1, utterance \o chunks[i].text,
                          IF e.kind = "entity" THEN Append(entities, e.entity)
                                               ELSE entities)

\* dialogflow.py:64-76  _join_text_chunks
JoinTextChunks(chunks) == JoinFrom(chunks, 1, <<>>, <<>>)

\* dialogflow.py:57-60  the loop of _read_intent from example i on.
RECURSIVE ExamplesFrom(_, _, _, _)
ExamplesFrom(intent, examples_js, i, training_examples) ==
    IF i > Len(examples_js) THEN Some(training_examples)
    ELSE LET j == JoinTextChunks(examples_js[i].data)
         IN IF j.kind = "KeyError" THEN Nothing
            ELSE ExamplesFrom(intent, examples_js, i + 1,
                     Append(training_examples, MessageBuild(j.text, intent, j.entities)))

\* dialogflow.py:49-62  _read_intent
ReadIntentResult(intent_js, examples_js) ==
    LET training_examples == ExamplesFrom(intent_js.name, examples_js, 1, <<>>)
    IN IF training_examples.some
       THEN TrainingData(training_examples.value, <<>>, Nothing)
       ELSE Raised("KeyError")

\* dialogflow.py:95-97  _flatten
RECURSIVE Flatten(_)
Flatten(list_of_lists) ==
    IF list_of_lists = <<>> THEN <<>>
    ELSE Head(list_of_lists) \o Flatten(Tail(list_of_lists))

\* Line 106 keeping every synonym.
NoAt_all(synonym) == TRUE

\* dialogflow.py:106  `"@" not in synonym`
NoAt(synonym) == \A i \in 1..Len(synonym) : synonym[i] # "@"

\* dialogflow.py:106  the list comprehension
RECURSIVE WithoutAt(_)
WithoutAt(synonyms) ==
    IF synonyms = <<>> THEN <<>>
    ELSE (IF NoAt(Head(synonyms)) THEN <<Head(synonyms)>> ELSE <<>>)
         \o WithoutAt(Tail(synonyms))

HasSynonyms(e) == "synonyms" \in DOMAIN e

\* dialogflow.py:104  the list comprehension
RECURSIVE SynonymLists(_)
SynonymLists(examples) ==
    IF examples = <<>> THEN <<>>
    ELSE (IF HasSynonyms(Head(examples)) THEN <<Head(examples).synonyms>> ELSE <<>>)
         \o SynonymLists(Tail(examples))

\* dialogflow.py:108  `... if elements else None`
Optional(elements) == IF elements # <<>> THEN Some(elements) ELSE Nothing

\* dialogflow.py:99-108  _extract_lookup_tables
ExtractLookupTables(name, examples) ==
    LET synonyms == Flatten(SynonymLists(examples))
        elements == WithoutAt(synonyms)
        table == Optional(elements)
    IN IF table.some THEN Some(<<[name |-> name, elements |-> table.value]>>)
                     ELSE Nothing

Elements(list) == {list[k] : k \in 1..Len(list)}

\* rasa.nlu.training_data.util.transform_entity_synonyms: every synonym of a
\* record that has "value" and "synonyms" maps to the record's value, a later
\* record overriding an earlier one.
RECURSIVE TransformFrom(_, _, _)
TransformFrom(examples_js, i, entity_synonyms) ==
    IF i > Len(examples_js) THEN entity_synonyms
    ELSE LET e == examples_js[i]
             own == IF "value" \in DOMAIN e /\ HasSynonyms(e)
                       THEN Elements(e.synonyms) ELSE {}
         IN TransformFrom(examples_js, i + 1,
                [y \in DOMAIN entity_synonyms \cup own |->
                    IF y \in own THEN e.value ELSE entity_synonyms[y]])

TransformEntitySynonyms(examples_js) == TransformFrom(examples_js, 1, <<>>)

\* dialogflow.py:110-118  _read_entities
ReadEntitiesResult(entity_js, examples_js) ==
    TrainingData(<<>>, TransformEntitySynonyms(examples_js),
                 ExtractLookupTables(entity_js.name, examples_js))

\* dialogflow.py:125-127  the examples file of a root file
ExamplesKind(ff) == IF ff = DIALOGFLOW_INTENT THEN "usersays" ELSE "entries"

Access(op, file) == [op |-> op, file |-> file]

\* read() doing its file accesses before it looks at fformat.
Supported_any(ff) == TRUE

\* dialogflow.py:33  `fformat not in {DIALOGFLOW_INTENT, DIALOGFLOW_ENTITIES}`
Supported(ff) == ff \in {DIALOGFLOW_INTENT, DIALOGFLOW_ENTITIES}

\* dialogflow.py:33-36
ReadUnsupported ==
    /\ result = Pending
    /\ ~Supported(fformat)
    /\ result' = Raised("ValueError")
    /\ UNCHANGED <<fformat, fs, io, schedVars>>

\* dialogflow.py:38  read_json_file(fn) on a root file that cannot be read
ReadRootFails ==
    /\ result = Pending
    /\ Supported(fformat)
    /\ ~fs.root.exists
    /\ io' = Append(io, Access("read_json_file", "root"))
    /\ result' = Raised("FileNotFoundError")
    /\ UNCHANGED <<fformat, fs, schedVars>>

\* dialogflow.py:120-131  _read_examples_js: the accesses it makes
ExamplesAccesses(ff) ==
    <<Access("isfile", ExamplesKind(ff))>>
    \o (IF fs[ExamplesKind(ff)].exists
           THEN <<Access("read_json_file", ExamplesKind(ff))>> ELSE <<>>)

\* dialogflow.py:41  `not examples_js`: no file (None) or an empty list
NoExamples(ff) ==
    \/ ~fs[ExamplesKind(ff)].exists
    \/ fs[ExamplesKind(ff)].json = <<>>

\* dialogflow.py:38-43
ReadNoExamples ==
    /\ result = Pending
    /\ Supported(fformat)
    /\ fs.root.exists
    /\ NoExamples(fformat)
    /\ io' = io \o <<Access("read_json_file", "root")>> \o ExamplesAccesses(fformat)
    /\ result' = TrainingData(<<>>, <<>>, Nothing)
    /\ UNCHANGED <<fformat, fs, schedVars>>

\* dialogflow.py:38-45
ReadIntent ==
    /\ result = Pending
    /\ Supported(fformat)
    /\ fs.root.exists
    /\ ~NoExamples(fformat)
    /\ fformat = DIALOGFLOW_INTENT
    /\ io' = io \o <<Access("read_json_file", "root")>> \o ExamplesAccesses(fformat)
    /\ result' = ReadIntentResult(fs.root.json, fs[ExamplesKind(fformat)].json)
    /\ UNCHANGED <<fformat, fs, schedVars>>

\* dialogflow.py:38-47
ReadEntities ==
    /\ result = Pending
    /\ Supported(fformat)
    /\ fs.root.exists
    /\ ~NoExamples(fformat)
    /\ fformat # DIALOGFLOW_INTENT
    /\ io' = io \o <<Access("read_json_file", "root")>> \o ExamplesAccesses(fformat)
    /\ result' = ReadEntitiesResult(fs.root.json, fs[ExamplesKind(fformat)].json)
    /\ UNCHANGED <<fformat, fs, schedVars>>

\* dialogflow.py:26-47  DialogflowReader.read
Read ==
    \/ ReadUnsupported
    \/ ReadRootFails
    \/ ReadNoExamples
    \/ ReadIntent
    \/ ReadEntities

SchedIdle ==
    /\ __scheduler = None
    /\ insts = <<>>
    /\ last = Call(NA, NA, NA, None, 0)
    /\ returned = {}
    /\ epoch = {}

ConvIdle ==
    /\ fformat = NA
    /\ fs = NA
    /\ io = <<>>
    /\ result = NA

SchedNext ==
    \/ \E loop \in Loops, ctor \in CtorOutcomes, start1 \in StartOutcomes,
          start2 \in FallbackStartOutcomes : Scheduler(loop, ctor, start1, start2)
    \/ KillScheduler

SchedInit == SchedIdle /\ ConvIdle

SchedSpec == SchedInit /\ [][SchedNext]_vars


\* The arguments and files of one read() call.
RootFiles == {File([name |-> n]) : n \in Names}
SampleUsersays == File(<<[data |-> <<MkChunk(<<"a">>, "@city", Absent)>>]>>)
SampleEntries == File(<<[value |-> "v", synonyms |-> <<<<"N", "Y">>>>]>>)

ConvInit ==
    /\ SchedIdle
    /\ io = <<>>
    /\ result = Pending
    /\ \/ /\ fformat \in Formats
          /\ fs \in [root : RootFiles \cup {Missing},
                     usersays : {Missing, SampleUsersays, File(<<>>)},
                     entries : {Missing, SampleEntries}]
       \/ /\ fformat = DIALOGFLOW_INTENT
          /\ \E root \in RootFiles, n \in 0..MaxChunks :
                \E d \in [1..n -> Chunks], k \in 0..(n + 1) :
                   fs = [root |-> root, usersays |-> File(ExampleList(d, k)),
                         entries |-> Missing]
       \/ /\ fformat = DIALOGFLOW_ENTITIES
          /\ \E root \in RootFiles, n \in 0..MaxRecords :
                \E x \in [1..n -> EntryRecords] :
                   fs = [root |-> root, usersays |-> Missing, entries |-> File(x)]

ConvNext == Read

ConvSpec == ConvInit /\ [][ConvNext]_vars

----------------------------------------------------------------------------
(* Properties of the scheduler accessor *)

IsCall(c, op) == c.op = op

\* C1: every handle scheduler() returns is bound to the caller's event loop;
\* a call made while the global holds a scheduler bound to another loop ends
\* with the RuntimeError of line 41, returns no handle and leaves the global
\* and the scheduler objects as they were.
C1_HandleBoundToCaller ==
    [][IsCall(last', "scheduler") =>
         /\ last'.outcome = "returned" =>
               /\ last'.handle # None
               /\ insts'[last'.handle].eventloop = last'.loop
         /\ (__scheduler # None /\ insts[__scheduler].eventloop # last'.loop) =>
               /\ last'.outcome = "RuntimeError"
               /\ last'.handle = None
               /\ UNCHANGED <<__scheduler, insts>>]_vars

\* C1 witness: a call from the second loop was rejected while the scheduler
\* of the first loop is stored and running.
C1_Witness ==
    /\ IsCall(last, "scheduler")
    /\ last.outcome = "RuntimeError"
    /\ __scheduler # None
    /\ insts[__scheduler].state = "running"
    /\ insts[__scheduler].eventloop # last.loop

\* C2: between two kill_scheduler() calls all handles returned are one and
\* the same object, the one the global holds; a call from the loop of the
\* stored scheduler returns that object and constructs and starts nothing.
C2_SameInstance ==
    /\ [](Cardinality(epoch) <= 1 /\ epoch \subseteq {__scheduler})
    /\ [][(/\ IsCall(last', "scheduler")
           /\ __scheduler # None
           /\ insts[__scheduler].eventloop = last'.loop) =>
              /\ last'.outcome = "returned"
              /\ last'.handle = __scheduler
              /\ last'.made = 0
              /\ UNCHANGED <<__scheduler, insts>>]_vars

\* C2 witness: a later call of the same loop got the stored, running
\* scheduler back without constructing anything.
C2_Witness ==
    /\ IsCall(last, "scheduler")
    /\ last.outcome = "returned"
    /\ last.made = 0
    /\ last.handle = __scheduler
    /\ insts[__scheduler].state = "running"
    /\ epoch = {__scheduler}

\* C3: the scheduler() call that follows a kill_scheduler() call that returned
\* constructs an object bound to the caller's loop, stores it and starts it;
\* the handle it returns is running, was never returned before and is not
\* the scheduler that was shut down.
C3_FreshAfterKill ==
    [][(/\ IsCall(last, "kill_scheduler")
        /\ last.outcome = "returned"
        /\ IsCall(last', "scheduler")) =>
           /\ last'.made >= 1
           /\ __scheduler' > Len(insts)
           /\ insts'[__scheduler'].eventloop = last'.loop
           /\ last'.outcome \in {"returned", "Error"}
           /\ last'.outcome = "returned" =>
                 /\ last'.handle = __scheduler'
                 /\ last'.handle \notin returned
                 /\ last'.handle # last.handle
                 /\ insts'[last'.handle].state = "running"]_vars

\* C3 witness: a scheduler was shut down by kill_scheduler() and the call
\* after it, from the other loop, returned a new running one.
C3_Witness ==
    /\ IsCall(last, "scheduler")
    /\ last.outcome = "returned"
    /\ last.made >= 1
    /\ last.handle >= 2
    /\ \E k \in returned : /\ k # last.handle
                           /\ insts[k].state = "stopped"
                           /\ insts[k].eventloop # last.loop

\* C4: kill_scheduler() never fails and always leaves the global cleared.
C4_KillNeverFails ==
    IsCall(last, "kill_scheduler") =>
        /\ last.outcome = "returned"
        /\ __scheduler = None

\* C10: at most one scheduler is started and not shut down, and it is the
\* one the global holds.
C10_AtMostOneLive ==
    /\ Cardinality(Live) <= 1
    /\ \A i \in Live : i = __scheduler

\* C10 witness: the UTC fallback was taken after an earlier scheduler was
\* killed, and its scheduler is the only live one.
C10_Witness ==
    /\ IsCall(last, "scheduler")
    /\ last.outcome = "returned"
    /\ insts[last.handle].timezone = "utc"
    /\ Live = {__scheduler}
    /\ \E k \in returned : k # __scheduler

----------------------------------------------------------------------------
(* Properties of the Dialogflow reader *)

\* The text of the first n chunks, concatenated in order.
RECURSIVE ConcatUpTo(_, _)
ConcatUpTo(chunks, n) ==
    IF n = 0 THEN <<>> ELSE ConcatUpTo(chunks, n - 1) \o chunks[n].text

\* The running offset of chunk j: the length of the texts before it.
Off(chunks, j) == Len(ConcatUpTo(chunks, j - 1))

Annotated(c) == "meta" \in DOMAIN c \/ "alias" \in DOMAIN c

\* The resolved type label of an annotated chunk: alias if present, else meta.
Resolved(c) == IF "alias" \in DOMAIN c THEN c.alias ELSE c.meta

\* read() was called on the intent path with example records to convert.
IntentDone ==
    /\ fformat = DIALOGFLOW_INTENT
    /\ result # Pending
    /\ fs.root.exists
    /\ fs.usersays.exists
    /\ fs.usersays.json # <<>>

Examples == fs.usersays.json

\* The span of chunk j in the entities of one message, if it has one.
SpansAt(msg, chunks, j) ==
    {k \in 1..Len(msg.entities) : msg.entities[k].start = Off(chunks, j)}

\* Every message has the concatenation of its chunk texts, and every span
\* sits at the running offset of an annotated chunk, ends Len(text) later and
\* covers that slice of the utterance.
SpansAtRunningOffsets ==
    \A i \in 1..Len(Examples) :
        LET chunks == Examples[i].data
            msg == result.training_examples[i]
        IN /\ msg.text = ConcatUpTo(chunks, Len(chunks))
           /\ \A k \in 1..Len(msg.entities) :
                 LET e == msg.entities[k]
                 IN \E j \in 1..Len(chunks) :
                       /\ Annotated(chunks[j])
                       /\ e.start = Off(chunks, j)
                       /\ e.end = e.start + Len(chunks[j].text)
                       /\ e.value = SubSeq(msg.text, e.start + 1, e.end)

\* C5: for every list of chunks the intent path produces the concatenation of
\* the chunk texts, and every span sits at the running offset of its chunk,
\* ends Len(text) later and covers that slice of the utterance.
C5_RunningOffsets ==
    IntentDone => (result.kind = "TrainingData" /\ SpansAtRunningOffsets)

\* What remains of C5 on the lists the intent path does convert: the
\* utterances and spans it produces are as C5 says.
C5_RunningOffsetsWhenReturned ==
    (IntentDone /\ result.kind = "TrainingData") => SpansAtRunningOffsets

\* C6 as claimed: in every utterance produced, a chunk with meta
\* "@sys.ignore" has no span whatever else it carries, no span is labelled
\* "@sys.ignore", and the chunk's text is part of the utterance.
C6_MetaIgnoreNeverSpans ==
    (IntentDone /\ result.kind = "TrainingData") =>
        \A i \in 1..Len(Examples) :
            LET chunks == Examples[i].data
                msg == result.training_examples[i]
            IN /\ msg.text = ConcatUpTo(chunks, Len(chunks))
               /\ \A k \in 1..Len(msg.entities) : msg.entities[k].entity # IGNORE
               /\ \A j \in 1..Len(chunks) :
                     ("meta" \in DOMAIN chunks[j] /\ chunks[j].meta = IGNORE)
                        => SpansAt(msg, chunks, j) = {}

\* C6 amended: a chunk that carries meta and whose resolved type label (alias
\* if present, else meta) is "@sys.ignore" yields no entity from
\* _extract_entity at any offset; in every utterance produced such a chunk has
\* no span, no span is labelled "@sys.ignore", the chunk's text is in the
\* utterance, and every span starts at the running offset that counts it.
C6_ResolvedIgnoreNeverSpans ==
    IntentDone =>
        \A i \in 1..Len(Examples) :
            LET chunks == Examples[i].data
                ignored == {j \in 1..Len(chunks) :
                               /\ "meta" \in DOMAIN chunks[j]
                               /\ Resolved(chunks[j]) = IGNORE}
            IN /\ \A j \in ignored :
                     ExtractEntity(chunks[j], Off(chunks, j)).kind = "None"
               /\ result.kind = "TrainingData" =>
                     LET msg == result.training_examples[i]
                     IN /\ msg.text = ConcatUpTo(chunks, Len(chunks))
                        /\ \A k \in 1..Len(msg.entities) :
                              /\ msg.entities[k].entity # IGNORE
                              /\ \E j \in (1..Len(chunks)) \ ignored :
                                    msg.entities[k].start = Off(chunks, j)
                        /\ \A j \in ignored : SpansAt(msg, chunks, j) = {}

\* C6 witness: an utterance was produced from a chunk with meta "@city" and
\* alias "@sys.ignore" followed by a chunk whose one span starts after it.
C6_Witness ==
    /\ IntentDone
    /\ result.kind = "TrainingData"
    /\ \E i \in 1..Len(Examples) :
          LET chunks == Examples[i].data
              msg == result.training_examples[i]
          IN /\ Len(chunks) >= 2
             /\ "meta" \in DOMAIN chunks[1]
             /\ chunks[1].meta # IGNORE
             /\ Resolved(chunks[1]) = IGNORE
             /\ Len(msg.entities) = 1
             /\ msg.entities[1].start = Len(chunks[1].text)

\* C7: for every annotated chunk the extraction completes and the label of
\* its span is the alias if present, else the meta value.
C7_AliasElseMeta ==
    IntentDone =>
        \A i \in 1..Len(Examples) :
            LET chunks == Examples[i].data
            IN \A j \in 1..Len(chunks) :
                  Annotated(chunks[j]) =>
                     LET e == ExtractEntity(chunks[j], Off(chunks, j))
                     IN /\ e.kind # "KeyError"
                        /\ e.kind = "entity" => e.entity.entity = Resolved(chunks[j])

\* C8: a read() with an fformat other than the two recognized ones ends with
\* ValueError and has made no file access.
C8_RejectedBeforeIO ==
    (result # Pending /\ fformat \notin {DIALOGFLOW_INTENT, DIALOGFLOW_ENTITIES}) =>
        /\ result.kind = "ValueError"
        /\ io = <<>>

\* C8 witness: the call was rejected with the root file and an examples file
\* present and untouched.
C8_Witness ==
    /\ result.kind = "ValueError"
    /\ fformat = "unsupported_value"
    /\ fs.root.exists
    /\ fs.entries.exists
    /\ io = <<>>

\* The synonyms of the first n entries records, in record order.
RECURSIVE SynonymsUpTo(_, _)
SynonymsUpTo(records, n) ==
    IF n = 0 THEN <<>>
    ELSE SynonymsUpTo(records, n - 1)
         \o (IF "synonyms" \in DOMAIN records[n] THEN records[n].synonyms ELSE <<>>)

HasAt(synonym) == "@" \in {synonym[i] : i \in 1..Len(synonym)}
IsPlain(synonym) == ~HasAt(synonym)

\* read() was called on the entities path and found the entries file.
EntitiesDone ==
    /\ fformat = DIALOGFLOW_ENTITIES
    /\ result # Pending
    /\ fs.root.exists
    /\ fs.entries.exists

\* C9: the result of the entities path holds one lookup table, named after
\* the root record, whose elements are the synonyms without '@' of all
\* records in record order; it holds no lookup table when there is none.
C9_LookupTable ==
    EntitiesDone =>
        LET records == fs.entries.json
            expected == SelectSeq(SynonymsUpTo(records, Len(records)), IsPlain)
        IN /\ result.kind = "TrainingData"
           /\ result.lookup_tables =
                 IF expected = <<>> THEN <<>>
                 ELSE <<[name |-> fs.root.json.name, elements |-> expected]>>

\* C9 witness: two records gave the table its elements and a synonym with
\* '@' was left out.
C9_Witness ==
    /\ EntitiesDone
    /\ Len(fs.entries.json) = 2
    /\ \A n \in 1..2 :
          /\ "synonyms" \in DOMAIN fs.entries.json[n]
          /\ \E k \in 1..Len(fs.entries.json[n].synonyms) :
                IsPlain(fs.entries.json[n].synonyms[k])
    /\ \E k \in 1..Len(fs.entries.json[1].synonyms) :
          HasAt(fs.entries.json[1].synonyms[k])
    /\ Len(result.lookup_tables) = 1
    /\ Len(result.lookup_tables[1].elements) = 2

====
